---- MODULE Spec2Model ----
(***************************************************************************)
(* Authentication / authorization core of the user-management API:         *)
(*   app/core/security.py  - create_access_token, get_current_user,        *)
(*                           check_permissions                             *)
(*   app/api/api_user.py   - the role-protected user routes                *)
(*                                                                         *)
(* Time is counted in whole seconds, the resolution of the JWT "exp"       *)
(* claim.  A signature is modelled as the tuple of what was signed and the *)
(* key and algorithm used, i.e. a collision-free MAC.                      *)
(***************************************************************************)
EXTENDS Integers, FiniteSets, Sequences, TLC

VARIABLES now, issued, users, user_roles, req, call

vars == <<now, issued, users, user_roles, req, call>>

(* ------------------------------ bounds --------------------------------- *)
\* the clock stops at MaxTime
MaxTime == 2
\* the longest explicit expires_delta
MaxTtl == 1
\* tokens issued when create_access_token is explored with arbitrary arguments
MaxIssued == 1
\* logins performed while the user routes are exercised
MaxLogins == 2

(* ---------------------------- configuration ---------------------------- *)
\* settings.ACCESS_TOKEN_EXPIRE_SECONDS, scaled to the model's clock
ACCESS_TOKEN_EXPIRE_SECONDS == 2
SECRET_KEY == "server-secret"
SECURITY_ALGORITHM == "HS256"
OTHER_KEY == "other-secret"
GARBLED_KEY == "garbled"
OTHER_ALGORITHM == "HS512"

None == "None"
UserIds == {1, 2}
UserNames == {"alice", "bob"}
RoleNames == {"ADMIN", "VIEWER"}
Subjects == UserNames \cup {None}

\* the rows of the user table when the service starts
InitUsers ==
    { [id |-> 1, user_name |-> "alice", is_active |-> TRUE],
      [id |-> 2, user_name |-> "bob", is_active |-> TRUE] }

\* the user/role assignment when the service starts
InitUserRoles == [i \in UserIds |-> IF i = 1 THEN {"ADMIN"} ELSE {"VIEWER"}]

NoUser == [id |-> 0, user_name |-> None, is_active |-> FALSE]

(* ------------------------------ responses ------------------------------ *)
\* the detail strings of the HTTPExceptions, written without diacritics
DETAIL_NO_SUB == "Khong the xac thuc thong tin dang nhap"
DETAIL_BAD_TOKEN == "Token khong hop le"
DETAIL_NO_USER == "Khong the xac thuc thong tin dang nhap 3"
DETAIL_NO_PERMISSION == "Ban khong co quyen truy cap"

HTTPException(status_code, detail) ==
    [ok |-> FALSE, status |-> status_code, detail |-> detail,
     error |-> "HTTPException", sub |-> None, user |-> NoUser]

(* ------------------------------ Token Codec ---------------------------- *)
\* the signature jwt computes over a payload with a key and an algorithm
HMAC(key, algorithm, sub, exp) ==
    [key |-> key, alg |-> algorithm, sub |-> sub, exp |-> exp]

\* jwt.encode(to_encode, key, algorithm=...)
jwt_encode(payload, key, algorithm) ==
    [wf |-> TRUE, alg |-> algorithm, sub |-> payload.sub, exp |-> payload.exp,
     sig |-> HMAC(key, algorithm, payload.sub, payload.exp)]

\* expires_delta or timedelta(seconds=...): None and timedelta(0) are falsy
Truthy(expires_delta) == expires_delta.given /\ expires_delta.seconds # 0

\* mutant: the lifetime is not added to the issuance time
create_access_token_no_delta(sub, expires_delta, utcnow) ==
    jwt_encode([sub |-> sub, exp |-> utcnow], SECRET_KEY, SECURITY_ALGORITHM)

create_access_token(sub, expires_delta, utcnow) ==
    LET expire == utcnow + (IF Truthy(expires_delta)
                            THEN expires_delta.seconds
                            ELSE ACCESS_TOKEN_EXPIRE_SECONDS)
        to_encode == [sub |-> sub, exp |-> expire]
    IN  jwt_encode(to_encode, SECRET_KEY, SECURITY_ALGORITHM)

\* mutant: decoding without verifying algorithm and signature
jwt_decode_unverified(token, key, algorithms, utcnow) ==
    IF ~token.wf THEN [ok |-> FALSE, error |-> "DecodeError", sub |-> None]
    ELSE IF token.exp <= utcnow
         THEN [ok |-> FALSE, error |-> "ExpiredSignatureError", sub |-> None]
    ELSE [ok |-> TRUE, error |-> None, sub |-> token.sub]

\* jwt.decode(token, key, algorithms=[...]): the error class it raises, or
\* the payload
jwt_decode(token, key, algorithms, utcnow) ==
    IF ~token.wf THEN [ok |-> FALSE, error |-> "DecodeError", sub |-> None]
    ELSE IF token.alg \notin algorithms
         THEN [ok |-> FALSE, error |-> "InvalidAlgorithmError", sub |-> None]
    ELSE IF token.sig # HMAC(key, token.alg, token.sub, token.exp)
         THEN [ok |-> FALSE, error |-> "InvalidSignatureError", sub |-> None]
    ELSE IF token.exp <= utcnow
         THEN [ok |-> FALSE, error |-> "ExpiredSignatureError", sub |-> None]
    ELSE [ok |-> TRUE, error |-> None, sub |-> token.sub]

(* --------------------------- get_current_user -------------------------- *)
Passed(sub, user) ==
    [ok |-> TRUE, status |-> 0, detail |-> "", error |-> None, sub |-> sub,
     user |-> user]

\* mutant: the missing-subject exception is turned into the invalid-token one
decode_subject_caught(token, utcnow) ==
    LET payload == jwt_decode(token, SECRET_KEY, {SECURITY_ALGORITHM}, utcnow)
    IN  IF ~payload.ok
        THEN [HTTPException(403, DETAIL_BAD_TOKEN) EXCEPT !.error = payload.error]
        ELSE IF payload.sub = None
        THEN HTTPException(403, DETAIL_BAD_TOKEN)
        ELSE Passed(payload.sub, NoUser)

\* mutant: a token is refused once its subject has left the user table
decode_subject_revocable(token, utcnow) ==
    LET payload == jwt_decode(token, SECRET_KEY, {SECURITY_ALGORITHM}, utcnow)
    IN  IF ~payload.ok
        THEN [HTTPException(403, DETAIL_BAD_TOKEN) EXCEPT !.error = payload.error]
        ELSE IF payload.sub = None
        THEN HTTPException(401, DETAIL_NO_SUB)
        ELSE IF \A u \in users : u.user_name # payload.sub
        THEN [HTTPException(403, DETAIL_BAD_TOKEN) EXCEPT !.error = "Revoked"]
        ELSE Passed(payload.sub, NoUser)

\* the try block: decode the token and read its subject
decode_subject(token, utcnow) ==
    LET payload == jwt_decode(token, SECRET_KEY, {SECURITY_ALGORITHM}, utcnow)
    IN  IF ~payload.ok
        THEN [HTTPException(403, DETAIL_BAD_TOKEN) EXCEPT !.error = payload.error]
        ELSE IF payload.sub = None
        THEN HTTPException(401, DETAIL_NO_SUB)
        ELSE Passed(payload.sub, NoUser)

\* mutant: the filter on user_name is lost, first() yields the lowest id
query_user_unfiltered(username) ==
    IF users = {} THEN NoUser
    ELSE CHOOSE u \in users : \A v \in users : u.id <= v.id

\* session.query(User).filter(User.user_name == username).first()
query_user(username) ==
    LET rows == {u \in users : u.user_name = username}
    IN  IF rows = {} THEN NoUser ELSE CHOOSE u \in rows : TRUE

\* the lookup after the try block
lookup_user(username) ==
    LET user == query_user(username)
    IN  IF user = NoUser
        THEN HTTPException(403, DETAIL_NO_USER)
        ELSE Passed(username, user)

(* --------------------------- check_permissions ------------------------- *)
\* UserRoleRepository.get_role_names_by_user_id
get_role_names_by_user_id(user_id) == user_roles[user_id]

\* mutant: every required role must be held
permission_checker_all(current_user, required_roles) ==
    LET roles == get_role_names_by_user_id(current_user.id)
    IN  IF ~(\A role \in required_roles : role \in roles)
        THEN HTTPException(403, DETAIL_NO_PERMISSION)
        ELSE Passed(current_user.user_name, current_user)

\* mutant: an empty required list lets every authenticated user through
permission_checker_open(current_user, required_roles) ==
    LET roles == get_role_names_by_user_id(current_user.id)
    IN  IF required_roles # {} /\ ~(\E role \in roles : role \in required_roles)
        THEN HTTPException(403, DETAIL_NO_PERMISSION)
        ELSE Passed(current_user.user_name, current_user)

\* mutant: the roles are those the user had when the service started
permission_checker_cached(current_user, required_roles) ==
    LET roles == InitUserRoles[current_user.id]
    IN  IF ~(\E role \in roles : role \in required_roles)
        THEN HTTPException(403, DETAIL_NO_PERMISSION)
        ELSE Passed(current_user.user_name, current_user)

permission_checker(current_user, required_roles) ==
    LET roles == get_role_names_by_user_id(current_user.id)
    IN  IF ~(\E role \in roles : role \in required_roles)
        THEN HTTPException(403, DETAIL_NO_PERMISSION)
        ELSE Passed(current_user.user_name, current_user)

(* ------------------------------ user routes ---------------------------- *)
Routes == {"get", "remove_role_from_user", "change_status", "delete_user",
           "assign_roles_to_user"}

\* dependencies=[Depends(check_permissions(["ADMIN"]))] on every route above
RouteRequired(route) == {"ADMIN"}

Exists(user_id) == \E u \in users : u.id = user_id

\* UserService.remove_role_from_user
UserService_remove_role_from_user(user_id, role) ==
    [user_roles EXCEPT ![user_id] = @ \ {role}]

\* UserService.assign_roles_to_user
UserService_assign_roles_to_user(user_id, roles) ==
    [user_roles EXCEPT ![user_id] = @ \cup roles]

\* UserService.change_status: lock / unlock
UserService_change_status(user_id) ==
    {IF u.id = user_id THEN [u EXCEPT !.is_active = ~@] ELSE u : u \in users}

\* UserService.delete_user
UserService_delete_user(user_id) == {u \in users : u.id # user_id}

(* ------------------------------- requests ------------------------------ *)
NoToken ==
    [wf |-> FALSE, alg |-> None, sub |-> None, exp |-> 0,
     sig |-> HMAC(None, None, None, 0)]

NoRequest ==
    [pc |-> "idle", route |-> None, token |-> NoToken, decoded_at |-> 0,
     error |-> None, username |-> None, user |-> NoUser, roles_seen |-> {}, status |-> 0,
     detail |-> "", trace |-> <<>>, handled |-> FALSE]

NoCall ==
    [done |-> FALSE, principal |-> NoUser, required |-> {}, returned |-> {},
     result |-> HTTPException(0, "")]

NoDelta == [given |-> FALSE, seconds |-> 0]
Deltas == {NoDelta} \cup {[given |-> TRUE, seconds |-> n] : n \in 0..MaxTtl}

IssuedTokens == {i.token : i \in issued}

\* a token whose signature bytes were changed
Garbled(t) == [t EXCEPT !.sig = HMAC(GARBLED_KEY, t.alg, t.sub, t.exp)]

\* every way a client can alter a token it holds without the server's secret
\* and algorithm: payload, signature, signing key, algorithm, encoding
Tampered(t) ==
    {[t EXCEPT !.sub = s] : s \in Subjects \ {t.sub}}
    \cup {[t EXCEPT !.exp = t.exp + 1]}
    \cup {Garbled(t)}
    \cup {jwt_encode([sub |-> s, exp |-> t.exp + 1], OTHER_KEY, t.alg) :
            s \in UserNames}
    \cup {jwt_encode([sub |-> t.sub, exp |-> t.exp], OTHER_KEY, t.alg)}
    \cup {jwt_encode([sub |-> t.sub, exp |-> t.exp], SECRET_KEY, OTHER_ALGORITHM)}
    \cup {[t EXCEPT !.alg = OTHER_ALGORITHM]}
    \cup {[t EXCEPT !.wf = FALSE]}

\* what a client may present: tokens it was issued, and alterations of them
Presentable == IssuedTokens \cup UNION {Tampered(t) : t \in IssuedTokens}
PresentableByUsers == IssuedTokens \cup {Garbled(t) : t \in IssuedTokens}

\* the stages a request goes through, in the order of its dependencies
Stages == <<"verify", "resolve", "authorize", "handler">>

\* an HTTPException raised in a dependency ends the request
Deny(r) ==
    [req EXCEPT !.pc = "responded", !.status = r.status, !.detail = r.detail,
                !.error = r.error]

Init ==
    /\ now = 0
    /\ issued = {}
    /\ users = InitUsers
    /\ user_roles = InitUserRoles
    /\ req = NoRequest
    /\ call = NoCall

\* datetime.utcnow() advances
Tick ==
    /\ now < MaxTime
    /\ now' = now + 1
    /\ UNCHANGED <<issued, users, user_roles, req, call>>

\* a caller obtains create_access_token({"sub": sub}, expires_delta)
IssueToken(subs, deltas, limit) ==
    /\ Cardinality(issued) < limit
    /\ \E sub \in subs, delta \in deltas :
         issued' = issued \cup
             {[token |-> create_access_token(sub, delta, now), at |-> now,
               delta |-> delta]}
    /\ UNCHANGED <<now, users, user_roles, req, call>>

\* a request with a bearer token arrives at a protected route
SendRequest(routes, tokens) ==
    /\ req.pc \in {"idle", "responded"}
    /\ \E route \in routes, token \in tokens :
         req' = [NoRequest EXCEPT !.pc = "decode", !.route = route,
                                  !.token = token]
    /\ UNCHANGED <<now, issued, users, user_roles, call>>

GetCurrentUserDecode ==
    /\ req.pc = "decode"
    /\ LET r == decode_subject(req.token, now)
       IN  req' = IF r.ok
                  THEN [req EXCEPT !.pc = "lookup", !.decoded_at = now,
                                   !.username = r.sub,
                                   !.trace = Append(@, "verify")]
                  ELSE [Deny(r) EXCEPT !.decoded_at = now]
    /\ UNCHANGED <<now, issued, users, user_roles, call>>

GetCurrentUserLookup ==
    /\ req.pc = "lookup"
    /\ LET r == lookup_user(req.username)
       IN  req' = IF r.ok
                  THEN [req EXCEPT !.pc = "permission", !.user = r.user,
                                   !.trace = Append(@, "resolve")]
                  ELSE Deny(r)
    /\ UNCHANGED <<now, issued, users, user_roles, call>>

PermissionCheck ==
    /\ req.pc = "permission"
    /\ LET r == permission_checker(req.user, RouteRequired(req.route))
           seen == get_role_names_by_user_id(req.user.id)
       IN  req' = IF r.ok
                  THEN [req EXCEPT !.pc = "handler", !.user = r.user,
                                   !.roles_seen = seen,
                                   !.trace = Append(@, "authorize")]
                  ELSE [Deny(r) EXCEPT !.roles_seen = seen]
    /\ UNCHANGED <<now, issued, users, user_roles, call>>

\* the handler's response; the request's dependencies are released
Respond(status_code) ==
    [NoRequest EXCEPT !.pc = "responded", !.status = status_code,
                      !.handled = TRUE, !.trace = Append(req.trace, "handler")]

get ==
    /\ req.pc = "handler" /\ req.route = "get"
    /\ req' = Respond(200)
    /\ UNCHANGED <<now, issued, users, user_roles, call>>

remove_role_from_user ==
    /\ req.pc = "handler" /\ req.route = "remove_role_from_user"
    /\ \E user_id \in UserIds, role \in RoleNames :
         IF Exists(user_id)
         THEN /\ user_roles' = UserService_remove_role_from_user(user_id, role)
              /\ req' = Respond(200)
         ELSE /\ user_roles' = user_roles
              /\ req' = Respond(400)
    /\ UNCHANGED <<now, issued, users, call>>

change_status ==
    /\ req.pc = "handler" /\ req.route = "change_status"
    /\ \E user_id \in UserIds :
         IF Exists(user_id)
         THEN /\ users' = UserService_change_status(user_id)
              /\ req' = Respond(200)
         ELSE /\ users' = users
              /\ req' = Respond(400)
    /\ UNCHANGED <<now, issued, user_roles, call>>

delete_user ==
    /\ req.pc = "handler" /\ req.route = "delete_user"
    /\ \E user_id \in UserIds :
         IF Exists(user_id)
         THEN /\ users' = UserService_delete_user(user_id)
              /\ req' = Respond(200)
         ELSE /\ users' = users
              /\ req' = Respond(400)
    /\ UNCHANGED <<now, issued, user_roles, call>>

assign_roles_to_user ==
    /\ req.pc = "handler" /\ req.route = "assign_roles_to_user"
    /\ \E user_id \in UserIds, role_ids \in SUBSET RoleNames :
         IF Exists(user_id)
         THEN /\ user_roles' = UserService_assign_roles_to_user(user_id, role_ids)
              /\ req' = Respond(201)
         ELSE /\ user_roles' = user_roles
              /\ req' = Respond(400)
    /\ UNCHANGED <<now, issued, users, call>>

(* ------------- the user routes, used by logged-in users ---------------- *)
Next ==
    \/ Tick
    \/ IssueToken(UserNames, {NoDelta}, MaxLogins)
    \/ SendRequest(Routes, PresentableByUsers)
    \/ GetCurrentUserDecode
    \/ GetCurrentUserLookup
    \/ PermissionCheck
    \/ get
    \/ remove_role_from_user
    \/ change_status
    \/ delete_user
    \/ assign_roles_to_user

Spec == Init /\ [][Next]_vars

(* ------- the Token Codec with arbitrary arguments and alterations ------ *)
NextToken ==
    \/ Tick
    \/ IssueToken(Subjects, Deltas, MaxIssued)
    \/ SendRequest({"get"}, Presentable)
    \/ GetCurrentUserDecode
    \/ GetCurrentUserLookup
    \/ PermissionCheck
    \/ get

SpecToken == Init /\ [][NextToken]_vars

(* ---------------- check_permissions as a pure function ----------------- *)
\* any content of the Role Repository
InitAuthz ==
    /\ now = 0
    /\ issued = {}
    /\ users = InitUsers
    /\ user_roles \in [UserIds -> SUBSET RoleNames]
    /\ req = NoRequest
    /\ call = NoCall

\* check_permissions(required)(current_user) for any principal and any set
Authorize ==
    /\ \E current_user \in users, required_roles \in SUBSET RoleNames :
         call' = [done |-> TRUE, principal |-> current_user,
                  required |-> required_roles,
                  returned |-> get_role_names_by_user_id(current_user.id),
                  result |-> permission_checker(current_user, required_roles)]
    /\ UNCHANGED <<now, issued, users, user_roles, req>>

NextAuthz == Authorize

SpecAuthz == InitAuthz /\ [][NextAuthz]_vars

(* ============================== properties ============================= *)
Decoded == req.pc \notin {"idle", "decode"} /\ ~req.handled
DecodePassed == Len(req.trace) >= 1
SignatureValid(t) ==
    t.wf /\ t.alg = SECURITY_ALGORITHM
         /\ t.sig = HMAC(SECRET_KEY, t.alg, t.sub, t.exp)
Altered(t) ==
    t \notin IssuedTokens /\ \E i \in IssuedTokens : t \in Tampered(i)
InvalidToken == req.status = 403 /\ req.detail = DETAIL_BAD_TOKEN
Forbidden(r) == ~r.ok /\ r.status = 403 /\ r.detail = DETAIL_NO_PERMISSION
MissingSubject(t, at) == SignatureValid(t) /\ at < t.exp /\ t.sub = None

\* C1: with a non-empty required set, the permission checker returns the
\* principal exactly when the role names returned by the Role Repository
\* share an element with the required set; otherwise it ends in Forbidden
\* and returns no principal.
C1_AuthorizeIffIntersect ==
    (call.done /\ call.required # {}) =>
        /\ call.result.ok <=> (call.returned \cap call.required # {})
        /\ call.result.ok => call.result.user = call.principal
        /\ ~call.result.ok =>
             Forbidden(call.result) /\ call.result.user = NoUser

C1_Witness ==
    /\ call.done /\ call.result.ok
    /\ call.returned = {"ADMIN"} /\ call.required = {"ADMIN", "VIEWER"}

C3_HandlerAfterAllStages ==
    /\ \A k \in 1..Len(req.trace) : req.trace[k] = Stages[k]
    /\ req.handled => req.trace = Stages
    /\ req.pc = "handler" =>
         /\ req.trace = <<"verify", "resolve", "authorize">>
         /\ SignatureValid(req.token) /\ req.decoded_at < req.token.exp
         /\ req.user \in users
         /\ req.user.user_name = req.token.sub
         /\ user_roles[req.user.id] \cap RouteRequired(req.route) # {}
    /\ (req.pc = "responded" /\ ~req.handled) =>
         req.status \in {401, 403} /\ Len(req.trace) < 3

C3_Witness ==
    req.handled /\ req.status = 200 /\ Cardinality(users) = 1

\* C4: a request bearing an altered token (changed payload, changed
\* signature, signature under another secret or algorithm, broken encoding)
\* is refused at verification with the invalid-token response: no subject is
\* read from it and no later stage runs.
C4_AlteredTokenRejected ==
    (Decoded /\ Altered(req.token)) =>
        /\ req.pc = "responded" /\ InvalidToken
        /\ req.error \in {"DecodeError", "InvalidAlgorithmError",
                          "InvalidSignatureError"}
        /\ req.trace = <<>> /\ req.username = None

C4_Witness ==
    /\ Decoded /\ Altered(req.token)
    /\ req.token.sub \in UserNames /\ req.token.exp > req.decoded_at
    /\ req.error = "InvalidSignatureError"

\* C5 as stated: a token issued with an explicit ttl t (zero included) is
\* refused as expired whenever it is verified at or after issuance + t.
C5_ExpiredAfterTtl ==
    \A i \in issued :
        (/\ i.delta.given
         /\ Decoded /\ req.token = i.token
         /\ req.decoded_at >= i.at + i.delta.seconds)
        => (~DecodePassed /\ req.error = "ExpiredSignatureError")

\* C6: a token issued for subject s with an explicit ttl > 0 and verified
\* at its issuance time passes verification and yields s.
C6_FreshTokenYieldsSubject ==
    \A i \in issued :
        (/\ i.delta.given /\ i.delta.seconds > 0
         /\ i.token.sub # None
         /\ Decoded /\ req.token = i.token
         /\ req.decoded_at = i.at)
        => (DecodePassed /\ req.username = i.token.sub)

C6_Witness ==
    \E i \in issued :
        /\ i.delta.given /\ i.delta.seconds > 0
        /\ Decoded /\ req.token = i.token /\ req.decoded_at = i.at
        /\ DecodePassed /\ req.username = "alice"

\* C7 as stated: resolution succeeds only for an active user; a locked user
\* is never the principal.
C7_ResolveOnlyActive ==
    req.user # NoUser => req.user.is_active

\* C8 as stated: signature mismatch, malformed encoding, algorithm mismatch
\* and a validly signed unexpired token without subject all end in the one
\* invalid-token response.
C8_OneInvalidTokenOutcome ==
    (Decoded /\ (~SignatureValid(req.token)
                 \/ MissingSubject(req.token, req.decoded_at)))
    => (req.pc = "responded" /\ InvalidToken)

\* C8 amended: signature mismatch, malformed encoding and algorithm mismatch
\* end in the 403 invalid-token response; a validly signed unexpired token
\* without subject ends in a different response, 401 with its own detail;
\* in all four cases the request is refused at verification.
C8_InvalidTokenOutcomes ==
    /\ (Decoded /\ ~SignatureValid(req.token)) =>
          req.pc = "responded" /\ InvalidToken /\ req.trace = <<>>
    /\ (Decoded /\ MissingSubject(req.token, req.decoded_at)) =>
          /\ req.pc = "responded" /\ req.trace = <<>>
          /\ req.status = 401 /\ req.detail = DETAIL_NO_SUB

C8_Witness ==
    /\ Decoded /\ MissingSubject(req.token, req.decoded_at)
    /\ req.status = 401

\* C9: whatever has happened to the user table and the role assignments, a
\* token with a subject passes the verify stage exactly when its signature
\* is valid and the time of verification is before its expiry.
C9_VerifyStateless ==
    (Decoded /\ req.token.sub # None) =>
        (DecodePassed <=>
            (SignatureValid(req.token) /\ req.decoded_at < req.token.exp))

C9_Witness ==
    /\ Decoded /\ DecodePassed /\ req.detail = DETAIL_NO_USER
    /\ req.token.sub \in UserNames

\* C10: the permission check decides on the role assignments as they are in
\* the store when the request is made: a request reaches its handler only
\* while its principal holds a required role, and is refused with Forbidden
\* only while the principal holds none.
C10_RolesReadAnew ==
    /\ req.pc = "handler" =>
         user_roles[req.user.id] \cap RouteRequired(req.route) # {}
    /\ (req.pc = "responded" /\ req.detail = DETAIL_NO_PERMISSION) =>
         /\ user_roles[req.user.id] \cap RouteRequired(req.route) = {}
         /\ ~req.handled /\ req.status = 403

C10_Witness ==
    /\ req.pc = "responded" /\ req.detail = DETAIL_NO_PERMISSION
    /\ req.user.user_name = "alice" /\ req.token \in IssuedTokens
    /\ req.decoded_at < req.token.exp

====
